---- MODULE Spec2Model ----
(***************************************************************************)
(* Model of exts/ferrocene_spec/syntax_directive.py: the character-level   *)
(* Lexer, the Parser's peek buffer (Parser.next / Parser.peek), the        *)
(* identifier classifier is_syntax_identifier and the Parser.parse loop.   *)
(*                                                                         *)
(* Strings are sequences of one-character strings.  Every Parser instance  *)
(* has an id; the state of the instances is kept in functions over ids.    *)
(***************************************************************************)
EXTENDS Integers, Sequences, FiniteSets, TLC

VARIABLES
    content,        \* Lexer.content, per lexer
    pos,            \* Lexer.pos, per lexer
    peek_buffer,    \* Parser.peek_buffer, per buffer
    document_name,  \* Parser.document_name, per parser
    pc,             \* where Parser.parse stands, per parser
    token,          \* the local `token` of Parser.parse
    offset,         \* int(peek_kind("whitespace")) of Parser.parse
    out,            \* the nodes Parser.parse has yielded so far
    last,           \* history: the latest Parser.next/peek call and its result
    returned,       \* history: the tokens Parser.next has returned
    lexed,          \* history: every resumption of Lexer.lex that yielded
    cls,            \* the running call of is_syntax_identifier
    lcall           \* history: the latest direct Lexer.next/peek call

vars == <<content, pos, peek_buffer, document_name, pc, token, offset, out,
          last, returned, lexed, cls, lcall>>

-----------------------------------------------------------------------------
(* Bounds *)

MaxLen == 4
MaxLenBuf == 4
MaxPeek == 2
MaxLenConc == 2
MaxLenCls == 3
MaxLenLive == 3
MaxLenLex == 3

-----------------------------------------------------------------------------
(* Characters *)

Alphabet == {"$", ":", "=", "A", "b", " "}

isupper(char) == char \in {"A"}

isalpha(char) == char \in {"A", "b"}

isspace(char) == char \in {" "}

NoChar == "None"

NoToken == [kind |-> "None", content |-> <<>>]

Token(kind, text) == [kind |-> kind, content |-> text]

StringsOver(chars, n) == UNION {[1..k -> chars] : k \in 0..n}

AllStrings(n) == StringsOver(Alphabet, n)

-----------------------------------------------------------------------------
(* Lexer *)

LexerPeek(c, p, nth) == IF p + nth < Len(c) THEN c[p + nth + 1] ELSE NoChar

\* A next that moves the cursor on at the end of the input too.
LexerNextPast(c, p) ==
    [char |-> LexerPeek(c, p, 0), pos |-> p + 1]

LexerNext(c, p) ==
    IF p < Len(c) THEN [char |-> c[p + 1], pos |-> p + 1]
                  ELSE [char |-> NoChar, pos |-> p]

\* No Lexer.next or Lexer.peek call has been made by a direct caller.
NoCall == [op |-> "None", nth |-> 0, ret |-> NoChar]

\* A literal loop that closes the span at a single "$".
RECURSIVE LiteralLoopSingle(_, _, _)
LiteralLoopSingle(c, p, buffer) ==
    LET peeked == LexerPeek(c, p, 0) IN
    IF peeked = NoChar
    THEN [buffer |-> buffer, pos |-> p, close |-> 0]
    ELSE IF peeked = "$"
         THEN [buffer |-> buffer,
               pos |-> LexerNext(c, LexerNext(c, p).pos).pos,
               close |-> 2]
         ELSE LET n == LexerNext(c, p)
              IN LiteralLoopSingle(c, n.pos, Append(buffer, n.char))

\* A literal loop that gives up its buffer when the input ends inside the span.
RECURSIVE LiteralLoopStrict(_, _, _)
LiteralLoopStrict(c, p, buffer) ==
    LET peeked == LexerPeek(c, p, 0) IN
    IF peeked = NoChar
    THEN [buffer |-> <<>>, pos |-> p, close |-> 0]
    ELSE IF peeked = "$" /\ LexerPeek(c, p, 1) = "$"
         THEN [buffer |-> buffer,
               pos |-> LexerNext(c, LexerNext(c, p).pos).pos,
               close |-> 2]
         ELSE LET n == LexerNext(c, p)
              IN LiteralLoopStrict(c, n.pos, Append(buffer, n.char))

\* A literal loop that looks for the closing `$$` one character too far on.
RECURSIVE LiteralLoopLate(_, _, _)
LiteralLoopLate(c, p, buffer) ==
    LET peeked == LexerPeek(c, p, 0) IN
    IF peeked = NoChar
    THEN [buffer |-> buffer, pos |-> p, close |-> 0]
    ELSE IF LexerPeek(c, p, 1) = "$" /\ LexerPeek(c, p, 2) = "$"
         THEN [buffer |-> Append(buffer, peeked),
               pos |-> LexerNext(c, LexerNext(c, LexerNext(c, p).pos).pos).pos,
               close |-> 2]
         ELSE LET n == LexerNext(c, p)
              IN LiteralLoopLate(c, n.pos, Append(buffer, n.char))

RECURSIVE LiteralLoop(_, _, _)
LiteralLoop(c, p, buffer) ==
    LET peeked == LexerPeek(c, p, 0) IN
    IF peeked = NoChar
    THEN [buffer |-> buffer, pos |-> p, close |-> 0]
    ELSE IF peeked = "$" /\ LexerPeek(c, p, 1) = "$"
         THEN [buffer |-> buffer,
               pos |-> LexerNext(c, LexerNext(c, p).pos).pos,
               close |-> 2]
         ELSE LET n == LexerNext(c, p)
              IN LiteralLoop(c, n.pos, Append(buffer, n.char))

RECURSIVE IdentifierLoop(_, _, _)
IdentifierLoop(c, p, buffer) ==
    LET peeked == LexerPeek(c, p, 0) IN
    IF peeked /= NoChar /\ isalpha(peeked)
    THEN LET n == LexerNext(c, p)
         IN IdentifierLoop(c, n.pos, Append(buffer, n.char))
    ELSE [buffer |-> buffer, pos |-> p]

\* A whitespace branch that takes the one character and does not loop.
WhitespaceLoopOnce(c, p, buffer) == [buffer |-> buffer, pos |-> p]

RECURSIVE WhitespaceLoop(_, _, _)
WhitespaceLoop(c, p, buffer) ==
    LET peeked == LexerPeek(c, p, 0) IN
    IF peeked /= NoChar /\ isspace(peeked)
    THEN LET n == LexerNext(c, p)
         IN WhitespaceLoop(c, n.pos, Append(buffer, n.char))
    ELSE [buffer |-> buffer, pos |-> p]

\* A Lexer.lex that takes `::` for the definition marker whatever follows it.
LexLooseDefinition(c, p) ==
    LET first == LexerNext(c, p)
        char == first.char
        q == first.pos
        Emit(tok, e, o, cl) ==
            [token |-> tok, start |-> p, pos |-> e, open |-> o, close |-> cl]
    IN
    IF char = NoChar THEN Emit(NoToken, q, 0, 0)
    ELSE IF char = "$" /\ LexerPeek(c, q, 0) = "$"
    THEN LET lit == LiteralLoop(c, LexerNext(c, q).pos, <<>>)
         IN Emit(Token("literal", lit.buffer), lit.pos, 2, lit.close)
    ELSE IF char = ":" /\ LexerPeek(c, q, 0) = ":"
    THEN Emit(Token("definition", <<":", ":", "=">>),
               LexerNext(c, LexerNext(c, q).pos).pos, 0, 0)
    ELSE IF isalpha(char)
    THEN LET id == IdentifierLoop(c, q, <<char>>)
         IN Emit(Token("identifier", id.buffer), id.pos, 0, 0)
    ELSE IF isspace(char)
    THEN LET ws == WhitespaceLoop(c, q, <<char>>)
         IN Emit(Token("whitespace", ws.buffer), ws.pos, 0, 0)
    ELSE Emit(Token("other", <<char>>), q, 0, 0)

\* One resumption of the generator Lexer.lex with the cursor at p: the token
\* it yields (NoToken when it returns), the cursor it leaves, and the number
\* of delimiter characters it consumed before and after the token's content.
Lex(c, p) ==
    LET first == LexerNext(c, p)
        char == first.char
        q == first.pos
        Emit(tok, e, o, cl) ==
            [token |-> tok, start |-> p, pos |-> e, open |-> o, close |-> cl]
    IN
    IF char = NoChar THEN Emit(NoToken, q, 0, 0)
    ELSE IF char = "$" /\ LexerPeek(c, q, 0) = "$"
    THEN LET lit == LiteralLoop(c, LexerNext(c, q).pos, <<>>)
         IN Emit(Token("literal", lit.buffer), lit.pos, 2, lit.close)
    ELSE IF char = ":" /\ LexerPeek(c, q, 0) = ":" /\ LexerPeek(c, q, 1) = "="
    THEN Emit(Token("definition", <<":", ":", "=">>),
               LexerNext(c, LexerNext(c, q).pos).pos, 0, 0)
    ELSE IF isalpha(char)
    THEN LET id == IdentifierLoop(c, q, <<char>>)
         IN Emit(Token("identifier", id.buffer), id.pos, 0, 0)
    ELSE IF isspace(char)
    THEN LET ws == WhitespaceLoop(c, q, <<char>>)
         IN Emit(Token("whitespace", ws.buffer), ws.pos, 0, 0)
    ELSE Emit(Token("other", <<char>>), q, 0, 0)

\* The whole sequence the generator Lexer.lex produces from the cursor p on.
RECURSIVE LexAll(_, _)
LexAll(c, p) ==
    LET l == Lex(c, p)
    IN IF l.token = NoToken THEN <<>> ELSE <<l.token>> \o LexAll(c, l.pos)

-----------------------------------------------------------------------------
(* Identifier classifier *)

EXPECT_ANY == 0
EXPECT_UPPER == 1
EXPECT_LOWER == 2

ClsStart(identifier) ==
    [identifier |-> identifier, i |-> 0, expected |-> EXPECT_UPPER,
     ret |-> "running"]

\* A classifier whose expectation goes back to uppercase after the lowercase.
ClsStepAlternating(s) ==
    IF s.i = Len(s.identifier) THEN [s EXCEPT !.ret = "True"]
    ELSE LET char == s.identifier[s.i + 1] IN
         IF s.expected = EXPECT_UPPER
         THEN IF ~isupper(char) THEN [s EXCEPT !.ret = "False"]
              ELSE [s EXCEPT !.i = s.i + 1, !.expected = EXPECT_LOWER]
         ELSE IF s.expected = EXPECT_LOWER
         THEN IF isupper(char) THEN [s EXCEPT !.ret = "False"]
              ELSE [s EXCEPT !.i = s.i + 1, !.expected = EXPECT_UPPER]
         ELSE [s EXCEPT !.i = s.i + 1]

\* One iteration of the for loop of is_syntax_identifier, or its final return.
ClsStep(s) ==
    IF s.i = Len(s.identifier) THEN [s EXCEPT !.ret = "True"]
    ELSE LET char == s.identifier[s.i + 1] IN
         IF s.expected = EXPECT_UPPER
         THEN IF ~isupper(char) THEN [s EXCEPT !.ret = "False"]
              ELSE [s EXCEPT !.i = s.i + 1, !.expected = EXPECT_LOWER]
         ELSE IF s.expected = EXPECT_LOWER
         THEN IF isupper(char) THEN [s EXCEPT !.ret = "False"]
              ELSE [s EXCEPT !.i = s.i + 1, !.expected = EXPECT_ANY]
         ELSE [s EXCEPT !.i = s.i + 1]

RECURSIVE ClsRun(_)
ClsRun(s) == IF s.ret /= "running" THEN s ELSE ClsRun(ClsStep(s))

is_syntax_identifier(identifier) == ClsRun(ClsStart(identifier)).ret = "True"

ClsIdle == [identifier |-> <<>>, i |-> 0, expected |-> EXPECT_UPPER,
            ret |-> "None"]

-----------------------------------------------------------------------------
(* Parser: the peek buffer *)

\* A next that pulls from the lexer without looking at the buffer.
NextUnbuffered(buf, c, p) ==
    LET l == Lex(c, p)
    IN [ret |-> l.token, buf |-> buf, pos |-> l.pos,
        pulled |-> IF l.token = NoToken THEN <<>> ELSE <<l>>]

\* A next that takes the buffered token from the back of the buffer.
NextPopBack(buf, c, p) ==
    IF buf /= <<>>
    THEN [ret |-> buf[Len(buf)], buf |-> SubSeq(buf, 1, Len(buf) - 1),
          pos |-> p, pulled |-> <<>>]
    ELSE LET l == Lex(c, p)
         IN [ret |-> l.token, buf |-> buf, pos |-> l.pos,
             pulled |-> IF l.token = NoToken THEN <<>> ELSE <<l>>]

\* A next that returns the front of the buffer and leaves it there.
NextKeepFront(buf, c, p) ==
    IF buf /= <<>>
    THEN [ret |-> Head(buf), buf |-> buf, pos |-> p, pulled |-> <<>>]
    ELSE LET l == Lex(c, p)
         IN [ret |-> l.token, buf |-> buf, pos |-> l.pos,
             pulled |-> IF l.token = NoToken THEN <<>> ELSE <<l>>]

\* Parser.next on a buffer and a lexer (content c, cursor p).
ParserNext(buf, c, p) ==
    IF buf /= <<>>
    THEN [ret |-> Head(buf), buf |-> Tail(buf), pos |-> p, pulled |-> <<>>]
    ELSE LET l == Lex(c, p)
         IN [ret |-> l.token, buf |-> buf, pos |-> l.pos,
             pulled |-> IF l.token = NoToken THEN <<>> ELSE <<l>>]

\* A peek that puts the token it pulled at the front of the buffer.
RECURSIVE PeekLoopPrepend(_, _, _, _, _)
PeekLoopPrepend(buf, c, p, nth, pulled) ==
    IF Len(buf) <= nth
    THEN LET l == Lex(c, p) IN
         IF l.token = NoToken
         THEN [ret |-> NoToken, buf |-> buf, pos |-> l.pos, pulled |-> pulled]
         ELSE PeekLoopPrepend(<<l.token>> \o buf, c, l.pos, nth,
                              Append(pulled, l))
    ELSE [ret |-> buf[nth + 1], buf |-> buf, pos |-> p, pulled |-> pulled]

RECURSIVE PeekLoop(_, _, _, _, _)
PeekLoop(buf, c, p, nth, pulled) ==
    IF Len(buf) <= nth
    THEN LET l == Lex(c, p) IN
         IF l.token = NoToken
         THEN [ret |-> NoToken, buf |-> buf, pos |-> l.pos, pulled |-> pulled]
         ELSE PeekLoop(Append(buf, l.token), c, l.pos, nth, Append(pulled, l))
    ELSE [ret |-> buf[nth + 1], buf |-> buf, pos |-> p, pulled |-> pulled]

\* A peek that answers with the front of the buffer whatever nth is.
PeekFront(buf, c, p, nth) == PeekLoop(buf, c, p, 0, <<>>)

\* A peek that pulls a fresh token from the lexer at every call.
PeekFresh(buf, c, p, nth) ==
    LET l == Lex(c, p)
    IN IF l.token = NoToken
       THEN [ret |-> NoToken, buf |-> buf, pos |-> l.pos, pulled |-> <<>>]
       ELSE [ret |-> l.token, buf |-> Append(buf, l.token), pos |-> l.pos,
             pulled |-> <<l>>]

\* A peek that forgets the tokens it pulled when the stream ends under it.
PeekDropOnEnd(buf, c, p, nth) ==
    LET r == PeekLoop(buf, c, p, nth, <<>>)
    IN IF r.ret = NoToken THEN [r EXCEPT !.buf = buf] ELSE r

\* A peek that pulls one token more than it was asked for.
PeekEager(buf, c, p, nth) ==
    LET r == PeekLoop(buf, c, p, nth + 1, <<>>)
    IN [r EXCEPT !.ret = IF nth < Len(r.buf) THEN r.buf[nth + 1]
                                             ELSE NoToken]

\* Parser.peek(nth).
ParserPeek(buf, c, p, nth) == PeekLoop(buf, c, p, nth, <<>>)

\* The Lexer and the peek buffer a Parser instance uses: its own.
LexerOf(p) == p

\* One peek buffer for every instance (a list held by the class).
SharedBuffer(p) == 1

BufferOf(p) == p

Parsers == DOMAIN pc

-----------------------------------------------------------------------------
(* Output nodes *)

Text(text) == [type |-> "Text", text |-> text]

LiteralEmphasis(text) ==
    [type |-> "LiteralEmphasis", text |-> text, classes |-> "spec-syntax-literal"]

DefinitionMarker(text) ==
    [type |-> "DefinitionMarker", kind |-> "syntaxes", name |-> text]

CrossReferenceMarker(text, doc) ==
    [type |-> "CrossReferenceMarker", refdomain |-> "spec", refdoc |-> doc,
     refexplicit |-> FALSE, reftarget |-> text, reftype |-> "ref",
     refwarn |-> FALSE, text |-> text]

-----------------------------------------------------------------------------
(* Parser.parse *)

\* A dispatch that goes round the loop again at the end of the stream.
DispatchNoReturn(tok) ==
    IF tok = NoToken THEN "next"
    ELSE IF tok.kind = "literal" THEN "literal"
    ELSE IF tok.kind = "identifier" /\ is_syntax_identifier(tok.content)
    THEN "peek_whitespace"
    ELSE "text"

\* A dispatch that takes every identifier for a syntax identifier.
DispatchAnyIdentifier(tok) ==
    IF tok = NoToken THEN "done"
    ELSE IF tok.kind = "literal" THEN "literal"
    ELSE IF tok.kind = "identifier" THEN "peek_whitespace"
    ELSE "text"

\* The branch Parser.parse takes on the token self.next() returned.
Dispatch(tok) ==
    IF tok = NoToken THEN "done"
    ELSE IF tok.kind = "literal" THEN "literal"
    ELSE IF tok.kind = "identifier" /\ is_syntax_identifier(tok.content)
    THEN "peek_whitespace"
    ELSE "text"

\* token = self.next() and the branch taken on it
Fetch(p) ==
    /\ pc[p] = "next"
    /\ \E r \in {ParserNext(peek_buffer[BufferOf(p)],
                   content[LexerOf(p)], pos[LexerOf(p)])} :
       LET b == BufferOf(p)
           l == LexerOf(p)
       IN /\ peek_buffer' = [peek_buffer EXCEPT ![b] = r.buf]
          /\ pos' = [pos EXCEPT ![l] = r.pos]
          /\ lexed' = [lexed EXCEPT ![l] = @ \o r.pulled]
          /\ token' = [token EXCEPT ![p] = r.ret]
          /\ last' = [last EXCEPT ![p] = [op |-> "next", nth |-> 0, ret |-> r.ret]]
          /\ returned' = [returned EXCEPT ![p] =
                            IF r.ret = NoToken THEN @ ELSE Append(@, r.ret)]
          /\ pc' = [pc EXCEPT ![p] = Dispatch(r.ret)]
    /\ UNCHANGED <<content, document_name, offset, out, cls, lcall>>

\* the inner peek_kind("whitespace")
PeekWhitespace(p) ==
    /\ pc[p] = "peek_whitespace"
    /\ \E r \in {ParserPeek(peek_buffer[BufferOf(p)],
                   content[LexerOf(p)], pos[LexerOf(p)], 0)} :
       LET b == BufferOf(p)
           l == LexerOf(p)
       IN /\ peek_buffer' = [peek_buffer EXCEPT ![b] = r.buf]
          /\ pos' = [pos EXCEPT ![l] = r.pos]
          /\ lexed' = [lexed EXCEPT ![l] = @ \o r.pulled]
          /\ last' = [last EXCEPT ![p] = [op |-> "peek", nth |-> 0, ret |-> r.ret]]
          /\ offset' = [offset EXCEPT ![p] =
                          IF r.ret /= NoToken /\ r.ret.kind = "whitespace"
                          THEN 1 ELSE 0]
    /\ pc' = [pc EXCEPT ![p] = "peek_definition"]
    /\ UNCHANGED <<content, document_name, token, out, returned, cls,
                   lcall>>

\* A lookahead that takes any token with the content `::=` for the marker.
PeekDefinitionByContent(p) ==
    /\ pc[p] = "peek_definition"
    /\ \E r \in {ParserPeek(peek_buffer[BufferOf(p)],
                   content[LexerOf(p)], pos[LexerOf(p)], offset[p])} :
       LET b == BufferOf(p)
           l == LexerOf(p)
       IN /\ peek_buffer' = [peek_buffer EXCEPT ![b] = r.buf]
          /\ pos' = [pos EXCEPT ![l] = r.pos]
          /\ lexed' = [lexed EXCEPT ![l] = @ \o r.pulled]
          /\ last' = [last EXCEPT ![p] =
                        [op |-> "peek", nth |-> offset[p], ret |-> r.ret]]
          /\ pc' = [pc EXCEPT ![p] =
                      IF r.ret /= NoToken /\ r.ret.content = <<":", ":", "=">>
                      THEN "definition" ELSE "reference"]
    /\ UNCHANGED <<content, document_name, token, offset, out, returned, cls,
                   lcall>>

\* the outer peek_kind("definition", offset)
PeekDefinition(p) ==
    /\ pc[p] = "peek_definition"
    /\ \E r \in {ParserPeek(peek_buffer[BufferOf(p)],
                   content[LexerOf(p)], pos[LexerOf(p)], offset[p])} :
       LET b == BufferOf(p)
           l == LexerOf(p)
       IN /\ peek_buffer' = [peek_buffer EXCEPT ![b] = r.buf]
          /\ pos' = [pos EXCEPT ![l] = r.pos]
          /\ lexed' = [lexed EXCEPT ![l] = @ \o r.pulled]
          /\ last' = [last EXCEPT ![p] =
                        [op |-> "peek", nth |-> offset[p], ret |-> r.ret]]
          /\ pc' = [pc EXCEPT ![p] =
                      IF r.ret /= NoToken /\ r.ret.kind = "definition"
                      THEN "definition" ELSE "reference"]
    /\ UNCHANGED <<content, document_name, token, offset, out, returned, cls,
                   lcall>>

Yield(p, node) ==
    /\ out' = [out EXCEPT ![p] = Append(@, node)]
    /\ pc' = [pc EXCEPT ![p] = "next"]
    /\ UNCHANGED <<content, pos, peek_buffer, document_name, token, offset,
                   last, returned, lexed, cls, lcall>>

YieldLiteral(p) ==
    /\ pc[p] = "literal"
    /\ Yield(p, LiteralEmphasis(token[p].content))

YieldDefinition(p) ==
    /\ pc[p] = "definition"
    /\ Yield(p, DefinitionMarker(token[p].content))

YieldReference(p) ==
    /\ pc[p] = "reference"
    /\ Yield(p, CrossReferenceMarker(token[p].content, document_name[p]))

YieldText(p) ==
    /\ pc[p] = "text"
    /\ Yield(p, Text(token[p].content))

-----------------------------------------------------------------------------
(* Specification of one parse *)

DocNames == {"index", "items"}

\* Longer inputs, in the model's alphabet: those of section 8 of the
\* specification and a few that put several kinds of token in one text.
Examples ==
    { <<"A", "b", " ", ":", ":", "=", " ", "A", "b">>,
      <<"A", "b", ":", ":", "=", "A">>,
      <<"$", "$", "b", " ", "=", " ", "b", "$", "$">>,
      <<"A", " ", ":", ":", "=", " ", "A">>,
      <<"A", "$", "$", ":", ":", "=", "$", "$">>,
      <<"$", "$", "b", "$", "$", "$">>,
      <<"A", " ", "$", "$", "b", "$">>,
      <<"b", " ", ":", ":", "=", "$", "$", "A", "$", "$">>,
      <<"A", " ", "$", "$", ":", ":", "=", "$", "$">>,
      <<"A", " ", " ", ":", ":", "=">>,
      <<"b", ":", ":", "=", "A", ":", ":", "=">> }

Inputs == AllStrings(MaxLen) \cup Examples

\* Parser(content, document_name) for every id of ids.
Construct(ids, inputs, docs) ==
    /\ content \in [ids -> inputs]
    /\ document_name \in [ids -> docs]
    /\ pos = [p \in ids |-> 0]
    /\ peek_buffer = [p \in ids |-> <<>>]
    /\ pc = [p \in ids |-> "next"]
    /\ token = [p \in ids |-> NoToken]
    /\ offset = [p \in ids |-> 0]
    /\ out = [p \in ids |-> <<>>]
    /\ last = [p \in ids |-> [op |-> "None", nth |-> 0, ret |-> NoToken]]
    /\ returned = [p \in ids |-> <<>>]
    /\ lexed = [p \in ids |-> <<>>]
    /\ lcall = [p \in ids |-> NoCall]

Init ==
    /\ Construct({1}, Inputs, DocNames)
    /\ cls = ClsIdle

Next ==
    \/ \E p \in Parsers : Fetch(p)
    \/ \E p \in Parsers : PeekWhitespace(p)
    \/ \E p \in Parsers : PeekDefinition(p)
    \/ \E p \in Parsers : YieldLiteral(p)
    \/ \E p \in Parsers : YieldDefinition(p)
    \/ \E p \in Parsers : YieldReference(p)
    \/ \E p \in Parsers : YieldText(p)

Spec == Init /\ [][Next]_vars

-----------------------------------------------------------------------------
(* Specification of SyntaxDirective.run: a parse driven to its end *)

\* Parser("\n".join(self.content), self.env.docname)
RunDirective ==
    /\ Parsers = {}
    /\ \E c \in AllStrings(MaxLenLive) \cup Examples, d \in DocNames :
          /\ content' = [p \in {1} |-> c]
          /\ document_name' = [p \in {1} |-> d]
    /\ pos' = [p \in {1} |-> 0]
    /\ peek_buffer' = [p \in {1} |-> <<>>]
    /\ pc' = [p \in {1} |-> "next"]
    /\ token' = [p \in {1} |-> NoToken]
    /\ offset' = [p \in {1} |-> 0]
    /\ out' = [p \in {1} |-> <<>>]
    /\ last' = [p \in {1} |-> [op |-> "None", nth |-> 0, ret |-> NoToken]]
    /\ returned' = [p \in {1} |-> <<>>]
    /\ lexed' = [p \in {1} |-> <<>>]
    /\ lcall' = [p \in {1} |-> NoCall]
    /\ UNCHANGED cls

InitLive ==
    /\ Construct({}, {<<>>}, DocNames)
    /\ cls = ClsIdle

NextLive == RunDirective \/ Next

\* The for loop of run resumes parse until it returns.
FairSpec == InitLive /\ [][NextLive]_vars /\ WF_vars(NextLive)

-----------------------------------------------------------------------------
(* Specification of a caller of Parser.next and Parser.peek *)

CallNext(p) ==
    /\ \E r \in {ParserNext(peek_buffer[BufferOf(p)],
                   content[LexerOf(p)], pos[LexerOf(p)])} :
       LET b == BufferOf(p)
           l == LexerOf(p)
       IN /\ peek_buffer' = [peek_buffer EXCEPT ![b] = r.buf]
          /\ pos' = [pos EXCEPT ![l] = r.pos]
          /\ lexed' = [lexed EXCEPT ![l] = @ \o r.pulled]
          /\ last' = [last EXCEPT ![p] = [op |-> "next", nth |-> 0, ret |-> r.ret]]
          /\ returned' = [returned EXCEPT ![p] =
                            IF r.ret = NoToken THEN @ ELSE Append(@, r.ret)]
    /\ UNCHANGED <<content, document_name, pc, token, offset, out, cls, lcall>>

CallPeek(p, nth) ==
    /\ \E r \in {ParserPeek(peek_buffer[BufferOf(p)],
                   content[LexerOf(p)], pos[LexerOf(p)], nth)} :
       LET b == BufferOf(p)
           l == LexerOf(p)
       IN /\ peek_buffer' = [peek_buffer EXCEPT ![b] = r.buf]
          /\ pos' = [pos EXCEPT ![l] = r.pos]
          /\ lexed' = [lexed EXCEPT ![l] = @ \o r.pulled]
          /\ last' = [last EXCEPT ![p] = [op |-> "peek", nth |-> nth, ret |-> r.ret]]
    /\ UNCHANGED <<content, document_name, pc, token, offset, out, returned, cls,
                   lcall>>

InitBuf ==
    /\ Construct({1}, AllStrings(MaxLenBuf), {"index"})
    /\ cls = ClsIdle

NextBuf ==
    \/ \E p \in Parsers : CallNext(p)
    \/ \E p \in Parsers : \E nth \in 0..MaxPeek : CallPeek(p, nth)

SpecBuf == InitBuf /\ [][NextBuf]_vars

-----------------------------------------------------------------------------
(* Specification of two parses running interleaved *)

ConcAlphabet == {"A", "b", " ", ":"}

\* Inputs with a definition site and with a literal span.
ConcExamples ==
    { <<"A", " ", ":", ":", "=">>,
      <<"A", ":", ":", "=", "A">>,
      <<"$", "$", "b">> }

ConcInputs == StringsOver(ConcAlphabet, MaxLenConc) \cup ConcExamples

InitConc ==
    /\ Construct({1, 2}, ConcInputs, {"index"})
    /\ cls = ClsIdle

SpecConc == InitConc /\ [][Next]_vars

-----------------------------------------------------------------------------
(* Specification of one call of is_syntax_identifier *)

ClsIterate ==
    /\ cls.ret = "running"
    /\ ClsStep(cls).ret = "running"
    /\ cls' = ClsStep(cls)
    /\ UNCHANGED <<content, pos, peek_buffer, document_name, pc, token,
                   offset, out, last, returned, lexed, lcall>>

ClsReturnFalse ==
    /\ cls.ret = "running"
    /\ ClsStep(cls).ret = "False"
    /\ cls' = ClsStep(cls)
    /\ UNCHANGED <<content, pos, peek_buffer, document_name, pc, token,
                   offset, out, last, returned, lexed, lcall>>

ClsReturnTrue ==
    /\ cls.ret = "running"
    /\ ClsStep(cls).ret = "True"
    /\ cls' = ClsStep(cls)
    /\ UNCHANGED <<content, pos, peek_buffer, document_name, pc, token,
                   offset, out, last, returned, lexed, lcall>>

InitCls ==
    /\ Construct({}, {<<>>}, {"index"})
    /\ cls \in {ClsStart(t) : t \in AllStrings(MaxLenCls)}

NextCls == ClsIterate \/ ClsReturnFalse \/ ClsReturnTrue

SpecCls == InitCls /\ [][NextCls]_vars

-----------------------------------------------------------------------------
(* Properties of one parse *)

Tokens(p) == LexAll(content[LexerOf(p)], 0)

Dollars(n) == [i \in 1..n |-> "$"]

NodeText(node) ==
    CASE node.type = "Text" -> node.text
      [] node.type = "LiteralEmphasis" -> node.text
      [] node.type = "DefinitionMarker" -> node.name
      [] node.type = "CrossReferenceMarker" -> node.reftarget

\* The text of the first n nodes, each with the delimiters the Lexer consumed
\* around its token put back.
RECURSIVE Rebuild(_, _, _)
Rebuild(nodes, lx, n) ==
    IF n = 0 THEN <<>>
    ELSE Rebuild(nodes, lx, n - 1) \o Dollars(lx[n].open)
         \o NodeText(nodes[n]) \o Dollars(lx[n].close)

IsPrefix(s, t) == Len(s) <= Len(t) /\ s = SubSeq(t, 1, Len(s))

\* C1: the text of the emitted nodes, in order, with the `$$` delimiters the
\* Lexer consumed put back where it consumed them, is at every moment a prefix
\* of the input, and is the whole input once parse has returned: no character
\* is created, dropped, duplicated or reordered.
C1_Reconstruction ==
    \A p \in Parsers :
        LET l == LexerOf(p)
            n == Len(out[p])
        IN /\ n <= Len(lexed[l])
           /\ IsPrefix(Rebuild(out[p], lexed[l], n), content[l])
           /\ pc[p] = "done" =>
                /\ n = Len(lexed[l])
                /\ Rebuild(out[p], lexed[l], n) = content[l]

C1_Witness ==
    \E p \in Parsers :
        /\ pc[p] = "done"
        /\ Len(out[p]) >= 3
        /\ \E i \in 1..Len(lexed[LexerOf(p)]) :
              lexed[LexerOf(p)][i].open = 2 /\ lexed[LexerOf(p)][i].close = 2

IsSyntaxToken(tok) ==
    tok.kind = "identifier" /\ is_syntax_identifier(tok.content)

\* The token after toks[i] is a definition token, or it is a whitespace token
\* and the one after it is a definition token.
DefinitionFollows(toks, i) ==
    \/ i + 1 <= Len(toks) /\ toks[i + 1].kind = "definition"
    \/ /\ i + 2 <= Len(toks)
       /\ toks[i + 1].kind = "whitespace"
       /\ toks[i + 2].kind = "definition"

\* C2: the node emitted for an identifier token that passes
\* is_syntax_identifier is DefinitionMarker("syntaxes", content) exactly when
\* the next token is a definition token or a whitespace token followed by a
\* definition token; otherwise it is a CrossReferenceMarker with target and
\* text equal to content, domain "spec", reftype "ref" and the parser's
\* document name as origin.
C2_DefinitionOrReference ==
    \A p \in Parsers :
        LET toks == Tokens(p) IN
        \A i \in 1..Len(out[p]) :
            (i <= Len(toks) /\ IsSyntaxToken(toks[i])) =>
                out[p][i] = IF DefinitionFollows(toks, i)
                            THEN DefinitionMarker(toks[i].content)
                            ELSE CrossReferenceMarker(toks[i].content,
                                                      document_name[p])

C2_Witness ==
    \E p \in Parsers :
        /\ pc[p] = "done"
        /\ \E i, j \in 1..Len(out[p]) :
              /\ out[p][i].type = "DefinitionMarker"
              /\ i + 1 <= Len(out[p])
              /\ out[p][i + 1] = Text(<<" ">>)
              /\ out[p][j].type = "CrossReferenceMarker"

DefinitionText == <<":", ":", "=">>

IsWhitespaceText(text) ==
    text /= <<>> /\ \A k \in 1..Len(text) : isspace(text[k])

\* C3: the lookahead consumes nothing: when parse is about to emit a
\* DefinitionMarker the peeked whitespace token (if any) and the `::=` token
\* are still in the peek buffer, and the nodes that follow a DefinitionMarker
\* are Text(whitespace) (when a whitespace token was peeked) and then
\* Text("::="), both of which have been emitted when parse returns.
C3_LookaheadKeepsTokens ==
    \A p \in Parsers :
        /\ pc[p] = "definition" =>
              LET buf == peek_buffer[BufferOf(p)] IN
              /\ Len(buf) = offset[p] + 1
              /\ buf[offset[p] + 1] = Token("definition", DefinitionText)
              /\ offset[p] = 1 => buf[1].kind = "whitespace"
        /\ \A i \in 1..Len(out[p]) :
              out[p][i].type = "DefinitionMarker" =>
                LET n == Len(out[p])
                    toks == Tokens(p)
                    ws == i + 1 <= Len(toks) /\ toks[i + 1].kind = "whitespace"
                    d == IF ws THEN i + 2 ELSE i + 1
                IN /\ (ws /\ i + 1 <= n) =>
                        /\ out[p][i + 1] = Text(toks[i + 1].content)
                        /\ IsWhitespaceText(out[p][i + 1].text)
                   /\ d <= n => out[p][d] = Text(DefinitionText)
                   /\ pc[p] = "done" => d <= n

C3_Witness ==
    \E p \in Parsers :
        \E i \in 1..Len(out[p]) :
            /\ out[p][i].type = "DefinitionMarker"
            /\ i + 2 <= Len(out[p])
            /\ out[p][i + 1] = Text(<<" ">>)
            /\ out[p][i + 2] = Text(DefinitionText)

\* The node Parser.parse derives from a token, up to the choice between a
\* definition and a reference.
DerivedFrom(node, tok) ==
    IF tok.kind = "literal" THEN node = LiteralEmphasis(tok.content)
    ELSE IF IsSyntaxToken(tok)
    THEN /\ node.type \in {"DefinitionMarker", "CrossReferenceMarker"}
         /\ NodeText(node) = tok.content
    ELSE node = Text(tok.content)

\* C4: parse emits one node per token of the Lexer, in token order: the i-th
\* node is derived from the i-th token (a literal token gives LiteralEmphasis,
\* an identifier failing is_syntax_identifier and every whitespace, other and
\* definition token give Text with the content verbatim), and when parse has
\* returned there are as many nodes as tokens.
C4_OneNodePerToken ==
    \A p \in Parsers :
        LET toks == Tokens(p) IN
        /\ Len(out[p]) <= Len(toks)
        /\ \A i \in 1..Len(out[p]) : DerivedFrom(out[p][i], toks[i])
        /\ pc[p] = "done" => Len(out[p]) = Len(toks)

C4_Witness ==
    \E p \in Parsers :
        /\ pc[p] = "done"
        /\ Len(out[p]) >= 4
        /\ \E i, j, k \in 1..Len(out[p]) :
              /\ out[p][i].type = "LiteralEmphasis"
              /\ out[p][j].type = "Text" /\ out[p][j].text = <<"b">>
              /\ out[p][k].type = "Text" /\ out[p][k].text = DefinitionText

-----------------------------------------------------------------------------
(* Properties of is_syntax_identifier *)

\* What the classifier is specified to answer for a text.
Conforms(text) ==
    /\ Len(text) >= 1 => isupper(text[1])
    /\ Len(text) >= 2 => ~isupper(text[2])

\* C5: is_syntax_identifier answers true exactly when position 0 (if present)
\* is uppercase and position 1 (if present) is not uppercase, whatever follows
\* ("" -> true, "A" -> true, "b" -> false, "Ab" -> true, "AA" -> false,
\* "Abb" -> true, "AAb" -> false), and its expectation is 'uppercase' at
\* position 0 only, 'not uppercase' at position 1 only and 'any' afterwards.
C5_Classifier ==
    /\ cls.ret \in {"True", "False"} =>
          /\ (cls.ret = "True") <=> Conforms(cls.identifier)
          /\ cls.identifier \in {<<>>, <<"A">>, <<"A", "b">>, <<"A", "b", "b">>}
                => cls.ret = "True"
          /\ cls.identifier \in {<<"b">>, <<"A", "A">>, <<"A", "A", "b">>}
                => cls.ret = "False"
    /\ cls.ret /= "None" =>
          /\ cls.i = 0 <=> cls.expected = EXPECT_UPPER
          /\ cls.i = 1 <=> cls.expected = EXPECT_LOWER
          /\ cls.i >= 2 <=> cls.expected = EXPECT_ANY

C5_Witness ==
    /\ cls.ret = "True"
    /\ cls.identifier = <<"A", "b", "A">>
    /\ cls.i = 3

-----------------------------------------------------------------------------
(* Termination *)

\* The tokens the lexer has yielded lie one after the other from the start of
\* the input to the cursor, each over at least one character, and hold
\* characters of the input only.
LexerAdvances(l) ==
    LET lx == lexed[l] IN
    /\ pos[l] <= Len(content[l])
    /\ pos[l] = IF lx = <<>> THEN 0 ELSE lx[Len(lx)].pos
    /\ \A i \in 1..Len(lx) :
          /\ lx[i].pos > lx[i].start
          /\ lx[i].start = IF i = 1 THEN 0 ELSE lx[i - 1].pos
          /\ \A k \in 1..Len(lx[i].token.content) :
                lx[i].token.content[k] \in Alphabet

\* 'No token' is answered only with the cursor at the end of the input, and
\* parse has returned exactly when next() has answered 'no token'.
StopsAtEnd(p) ==
    /\ (last[p].op /= "None" /\ last[p].ret = NoToken) =>
          pos[LexerOf(p)] = Len(content[LexerOf(p)])
    /\ pc[p] = "done" <=> (last[p].op = "next" /\ last[p].ret = NoToken)
    /\ pc[p] = "done" => peek_buffer[BufferOf(p)] = <<>>

AllDone == \A p \in Parsers : pc[p] = "done"

\* C6: every parse terminates: each token the Lexer yields advances the cursor
\* by at least one character, the Lexer answers 'no token' only with the
\* cursor at the end of the input, parse returns exactly on the next() that
\* answers 'no token', and a parse that keeps being resumed does return.
C6_Terminates ==
    /\ [](\A p \in Parsers : LexerAdvances(LexerOf(p)) /\ StopsAtEnd(p))
    /\ <>(Parsers /= {} /\ AllDone)

C6_Witness ==
    \E p \in Parsers :
        /\ pc[p] = "done"
        /\ Len(lexed[LexerOf(p)]) >= 3
        /\ \E i \in 1..Len(lexed[LexerOf(p)]) :
              lexed[LexerOf(p)][i].pos >= lexed[LexerOf(p)][i].start + 3

-----------------------------------------------------------------------------
(* Literal spans *)

\* The input c holds `$$` at the cursor j.
DelimiterAt(c, j) == j + 2 <= Len(c) /\ c[j + 1] = "$" /\ c[j + 2] = "$"

\* The cursors from s on where a `$$` stands.
Closings(c, s) == {j \in s..Len(c) : DelimiterAt(c, j)}

Min(S) == CHOOSE x \in S : \A y \in S : x <= y

\* C7: a token that starts at `$$` is a literal token; if no `$$` follows the
\* opening one, its content is every character after the opening delimiter up
\* to the end of the input and it is the last token of the stream; otherwise
\* its content is the characters strictly between the opening `$$` and the
\* first following `$$`, and the cursor is left after that `$$`.
C7_LiteralSpan ==
    \A l \in DOMAIN lexed :
        LET c == content[l]
            lx == lexed[l]
        IN \A i \in 1..Len(lx) :
              LET e == lx[i]
                  s == e.start + 2
              IN /\ e.token.kind = "literal" <=> DelimiterAt(c, e.start)
                 /\ e.token.kind = "literal" =>
                       IF Closings(c, s) = {}
                       THEN /\ e.token.content = SubSeq(c, s + 1, Len(c))
                            /\ e.pos = Len(c)
                            /\ e.close = 0
                            /\ i = Len(lx)
                            /\ Lex(c, e.pos).token = NoToken
                       ELSE LET j == Min(Closings(c, s))
                            IN /\ e.token.content = SubSeq(c, s + 1, j)
                               /\ e.pos = j + 2
                               /\ e.close = 2

C7_Witness ==
    \E p \in Parsers :
        /\ pc[p] = "done"
        /\ Len(out[p]) >= 2
        /\ \E i \in 1..Len(lexed[LexerOf(p)]) :
              LET e == lexed[LexerOf(p)][i]
              IN /\ e.token.kind = "literal"
                 /\ e.close = 0
                 /\ e.token.content = <<"b", "$">>

-----------------------------------------------------------------------------
(* Properties of the peek buffer *)

\* The i-th element of a sequence of tokens, 'no token' beyond its end.
TokenAt(toks, i) == IF i <= Len(toks) THEN toks[i] ELSE NoToken

\* The tokens next() has yet to return: the buffer, then the rest of the lexer.
Remaining(p) ==
    peek_buffer[BufferOf(p)] \o LexAll(content[LexerOf(p)], pos[LexerOf(p)])

\* C8: peek consumes nothing and answers the same whenever it is asked again:
\* the tokens returned so far followed by the tokens still to be returned are
\* always the Lexer's sequence; a peek(n) answers the token n places after the
\* last one next() returned, so its answer depends on n and on the number of
\* next() calls only; a peek leaves what next() has returned as it is; a
\* peek(n) directly after a peek(n) answers the same token; and the next()
\* directly after a peek(0) returns the token that peek answered.
C8_PeekIdempotent ==
    /\ [](\A p \in Parsers :
            /\ returned[p] \o Remaining(p) = Tokens(p)
            /\ last[p].op = "peek" =>
                  last[p].ret =
                      TokenAt(Tokens(p), Len(returned[p]) + last[p].nth + 1))
    /\ [][\A p \in Parsers :
            /\ last'[p].op = "peek" => returned'[p] = returned[p]
            /\ (/\ last[p].op = "peek"
                /\ last'[p].op = "peek"
                /\ last'[p].nth = last[p].nth) => last'[p].ret = last[p].ret
            /\ (/\ last[p].op = "peek"
                /\ last[p].nth = 0
                /\ last'[p].op = "next") => last'[p].ret = last[p].ret]_vars

C8_Witness ==
    \E p \in Parsers :
        /\ last[p].op = "peek"
        /\ last[p].nth = 1
        /\ last[p].ret /= NoToken
        /\ Len(peek_buffer[BufferOf(p)]) = 2
        /\ returned[p] /= <<>>

\* C9: a peek(n) made with fewer than n + 1 tokens left answers 'no token' and
\* removes nothing: after it the buffer holds exactly the tokens next() has
\* not returned yet; a further peek that far or farther answers 'no token'
\* again and changes neither the buffer nor the lexer; and the next() after it
\* returns the first of the remaining tokens and leaves the others in order.
C9_PeekPastEnd ==
    /\ [](\A p \in Parsers :
            LET toks == Tokens(p)
                left == Len(toks) - Len(returned[p])
            IN last[p].op = "peek" =>
                  /\ left <= last[p].nth <=> last[p].ret = NoToken
                  /\ left <= last[p].nth =>
                        /\ peek_buffer[BufferOf(p)] =
                              SubSeq(toks, Len(returned[p]) + 1, Len(toks))
                        /\ pos[LexerOf(p)] = Len(content[LexerOf(p)]))
    /\ [][\A p \in Parsers :
            (last[p].op = "peek" /\ last[p].ret = NoToken) =>
                /\ (last'[p].op = "peek" /\ last'[p].nth >= last[p].nth) =>
                      /\ last'[p].ret = NoToken
                      /\ peek_buffer' = peek_buffer
                      /\ pos' = pos
                      /\ returned' = returned
                /\ last'[p].op = "next" =>
                      IF peek_buffer[BufferOf(p)] = <<>>
                      THEN last'[p].ret = NoToken
                      ELSE /\ last'[p].ret = Head(peek_buffer[BufferOf(p)])
                           /\ peek_buffer'[BufferOf(p)] =
                                 Tail(peek_buffer[BufferOf(p)])]_vars

C9_Witness ==
    \E p \in Parsers :
        /\ last[p].op = "peek"
        /\ last[p].nth = 2
        /\ last[p].ret = NoToken
        /\ Len(peek_buffer[BufferOf(p)]) = 2
        /\ returned[p] /= <<>>

-----------------------------------------------------------------------------
(* Independence of two parses *)

\* The nodes Parser.parse yields when it is run to its end with nothing else
\* running, from a buffer buf and a lexer with the cursor at p.
RECURSIVE ParseRun(_, _, _, _)
ParseRun(buf, c, p, doc) ==
    LET r == ParserNext(buf, c, p) IN
    IF r.ret = NoToken THEN <<>>
    ELSE IF Dispatch(r.ret) = "peek_whitespace"
    THEN LET w == ParserPeek(r.buf, c, r.pos, 0)
             off == IF w.ret /= NoToken /\ w.ret.kind = "whitespace"
                    THEN 1 ELSE 0
             d == ParserPeek(w.buf, c, w.pos, off)
         IN <<IF d.ret /= NoToken /\ d.ret.kind = "definition"
              THEN DefinitionMarker(r.ret.content)
              ELSE CrossReferenceMarker(r.ret.content, doc)>>
            \o ParseRun(d.buf, c, d.pos, doc)
    ELSE <<IF Dispatch(r.ret) = "literal"
           THEN LiteralEmphasis(r.ret.content)
           ELSE Text(r.ret.content)>>
         \o ParseRun(r.buf, c, r.pos, doc)

ParseAlone(c, doc) == ParseRun(<<>>, c, 0, doc)

\* C10: whatever the interleaving of the steps of two parses, each has at
\* every moment yielded a prefix of what it yields when run alone on its
\* input, and all of it once it has returned.
C10_Independent ==
    \A p \in Parsers :
        LET alone == ParseAlone(content[LexerOf(p)], document_name[p])
        IN /\ IsPrefix(out[p], alone)
           /\ pc[p] = "done" => out[p] = alone

C10_Witness ==
    /\ Parsers = {1, 2}
    /\ pc[1] = "peek_definition"
    /\ pc[2] = "definition"
    /\ Len(peek_buffer[BufferOf(1)]) = 1
    /\ Len(peek_buffer[BufferOf(2)]) = 2

-----------------------------------------------------------------------------
(* The peek buffer during a parse *)

\* The buffer of p holds, in order, the tokens of the Lexer's sequence that
\* directly follow those next() has returned, and they are all the tokens the
\* lexer has yielded beyond them.
BufferIsRun(p) ==
    LET buf == peek_buffer[BufferOf(p)]
        lx == lexed[LexerOf(p)]
        n == Len(returned[p])
        toks == Tokens(p)
    IN /\ n + Len(buf) <= Len(toks)
       /\ returned[p] = SubSeq(toks, 1, n)
       /\ buf = SubSeq(toks, n + 1, n + Len(buf))
       /\ Len(lx) = n + Len(buf)
       /\ \A i \in 1..Len(lx) : lx[i].token = toks[i]

\* C11: during a parse the peek buffer is a contiguous run of the Lexer's
\* token sequence starting right after the last token next() returned; it is
\* empty before the first call and when parse has returned at the end of the
\* input; and a step either leaves it as it is, or is a peek that appends
\* tokens at its back, or is a next() that removes its front token.
C11_BufferContiguous ==
    /\ [](\A p \in Parsers :
            /\ BufferIsRun(p)
            /\ last[p].op = "None" => peek_buffer[BufferOf(p)] = <<>>
            /\ pc[p] = "done" =>
                  /\ peek_buffer[BufferOf(p)] = <<>>
                  /\ returned[p] = Tokens(p))
    /\ [][\A p \in Parsers :
            \/ peek_buffer'[BufferOf(p)] = peek_buffer[BufferOf(p)]
            \/ /\ last'[p].op = "peek"
               /\ returned'[p] = returned[p]
               /\ Len(peek_buffer'[BufferOf(p)]) > Len(peek_buffer[BufferOf(p)])
               /\ IsPrefix(peek_buffer[BufferOf(p)], peek_buffer'[BufferOf(p)])
            \/ /\ last'[p].op = "next"
               /\ peek_buffer[BufferOf(p)] /= <<>>
               /\ last'[p].ret = Head(peek_buffer[BufferOf(p)])
               /\ peek_buffer'[BufferOf(p)] = Tail(peek_buffer[BufferOf(p)])
               /\ returned'[p] = Append(returned[p], last'[p].ret)]_vars

C11_Witness ==
    \E p \in Parsers :
        /\ pc[p] = "definition"
        /\ last[p].nth = 1
        /\ Len(peek_buffer[BufferOf(p)]) = 2
        /\ peek_buffer[BufferOf(p)][1].kind = "whitespace"
        /\ Len(lexed[LexerOf(p)]) = 3

-----------------------------------------------------------------------------
(* Parser.next against the Lexer *)

\* The k-th token a caller gets who resumes Lexer.lex directly, 'no token'
\* once the generator has returned.
DirectPull(c, k) == TokenAt(LexAll(c, 0), k)

\* C12: whatever peek(n) calls are made between them, the successive next()
\* calls return the tokens of the Lexer for the input, each once and in order:
\* the k-th token next() returns is the k-th token of a direct pull from the
\* Lexer, next() answers 'no token' only when all of them have been returned,
\* and every call that returns a token returns the one following those
\* returned before.
C12_NextIsLexer ==
    /\ [](\A p \in Parsers :
            LET c == content[LexerOf(p)]
                n == Len(returned[p])
            IN /\ \A k \in 1..n :
                     /\ returned[p][k] /= NoToken
                     /\ returned[p][k] = DirectPull(c, k)
               /\ last[p].op = "next" =>
                     IF last[p].ret = NoToken
                     THEN DirectPull(c, n + 1) = NoToken
                     ELSE n >= 1 /\ last[p].ret = returned[p][n])
    /\ [][\A p \in Parsers :
            \/ returned'[p] = returned[p]
            \/ /\ last'[p].op = "next"
               /\ last'[p].ret =
                     DirectPull(content[LexerOf(p)], Len(returned[p]) + 1)
               /\ returned'[p] = Append(returned[p], last'[p].ret)]_vars

C12_Witness ==
    \E p \in Parsers :
        /\ last[p].op = "next"
        /\ last[p].ret /= NoToken
        /\ Len(returned[p]) = 2
        /\ Len(peek_buffer[BufferOf(p)]) = 2

-----------------------------------------------------------------------------
(* Specification of a caller of Lexer.next and Lexer.peek *)

CallLexerPeek(l, nth) ==
    /\ lcall' = [lcall EXCEPT ![l] =
                   [op |-> "peek", nth |-> nth,
                    ret |-> LexerPeek(content[l], pos[l], nth)]]
    /\ UNCHANGED <<content, pos, peek_buffer, document_name, pc, token,
                   offset, out, last, returned, lexed, cls>>

CallLexerNext(l) ==
    /\ \E r \in {LexerNext(content[l], pos[l])} :
          /\ pos' = [pos EXCEPT ![l] = r.pos]
          /\ lcall' = [lcall EXCEPT ![l] =
                         [op |-> "next", nth |-> 0, ret |-> r.char]]
    /\ UNCHANGED <<content, peek_buffer, document_name, pc, token, offset,
                   out, last, returned, lexed, cls>>

InitLexer ==
    /\ Construct({1}, AllStrings(MaxLenLex), {"index"})
    /\ cls = ClsIdle

NextLexer ==
    \/ \E l \in DOMAIN pos : \E nth \in 0..MaxPeek : CallLexerPeek(l, nth)
    \/ \E l \in DOMAIN pos : CallLexerNext(l)

SpecLexer == InitLexer /\ [][NextLexer]_vars

\* The character of c at the cursor j, 'no character' beyond the end.
CharAt(c, j) == IF j < Len(c) THEN c[j + 1] ELSE NoChar

\* C13: the cursor of the Lexer starts at 0, stays within 0..len(content) and
\* never decreases; a peek(n) answers the character n places after the cursor
\* ('no character' beyond the end) and leaves the cursor where it is; a
\* next() inside the input answers the character at the cursor and advances
\* the cursor by exactly one; a next() at the end of the input answers 'no
\* character' and leaves the cursor where it is.
C13_CursorMonotone ==
    /\ [](\A l \in DOMAIN pos :
            /\ 0 <= pos[l]
            /\ pos[l] <= Len(content[l])
            /\ lcall[l].op = "None" => pos[l] = 0
            /\ lcall[l].op = "peek" =>
                  lcall[l].ret = CharAt(content[l], pos[l] + lcall[l].nth))
    /\ [][\A l \in DOMAIN pos :
            /\ pos'[l] >= pos[l]
            /\ content'[l] = content[l]
            /\ \/ lcall'[l] = lcall[l] /\ pos'[l] = pos[l]
               \/ lcall'[l].op = "peek" /\ pos'[l] = pos[l]
               \/ /\ lcall'[l].op = "next"
                  /\ pos[l] < Len(content[l])
                  /\ lcall'[l].ret = content[l][pos[l] + 1]
                  /\ pos'[l] = pos[l] + 1
               \/ /\ lcall'[l].op = "next"
                  /\ pos[l] = Len(content[l])
                  /\ lcall'[l].ret = NoChar
                  /\ pos'[l] = pos[l]]_vars

C13_Witness ==
    \E l \in DOMAIN pos :
        /\ lcall[l].op = "next"
        /\ lcall[l].ret = NoChar
        /\ pos[l] = 3

-----------------------------------------------------------------------------
(* Properties of the tokens of the Lexer *)

\* The input c holds `::=` at the cursor j.
MarkerAt(c, j) ==
    j + 3 <= Len(c) /\ c[j + 1] = ":" /\ c[j + 2] = ":" /\ c[j + 3] = "="

\* C14: a token the Lexer yields is a definition token exactly when the three
\* characters at the cursor where it starts are `:`, `:`, `=`; a definition
\* token has the content "::=" and leaves the cursor three characters on; a
\* `:` that does not start `::=` is yielded as the token other(":") and leaves
\* the cursor one character on, where the next token starts; the input `:::=`
\* gives other(":") and then definition("::=").
C14_DefinitionToken ==
    \A l \in DOMAIN lexed :
        LET c == content[l]
            lx == lexed[l]
        IN /\ \A i \in 1..Len(lx) :
                 LET e == lx[i] IN
                 /\ e.token.kind = "definition" <=> MarkerAt(c, e.start)
                 /\ e.token.kind = "definition" =>
                       /\ e.token.content = DefinitionText
                       /\ e.pos = e.start + 3
                 /\ (c[e.start + 1] = ":" /\ ~MarkerAt(c, e.start)) =>
                       /\ e.token = Token("other", <<":">>)
                       /\ e.pos = e.start + 1
                 /\ i < Len(lx) => lx[i + 1].start = e.pos
           /\ (c = <<":", ":", ":", "=">> /\ Len(lx) >= 1) =>
                 lx[1].token = Token("other", <<":">>)
           /\ (c = <<":", ":", ":", "=">> /\ Len(lx) >= 2) =>
                 /\ lx[2].token = Token("definition", DefinitionText)
                 /\ Len(lx) = 2

C14_Witness ==
    \E p \in Parsers :
        /\ pc[p] = "done"
        /\ content[LexerOf(p)] = <<":", ":", ":", "=">>
        /\ out[p] = <<Text(<<":">>), Text(DefinitionText)>>

-----------------------------------------------------------------------------
(* Literal spans are not interpreted *)

\* The token after toks[i], or after the whitespace token that follows
\* toks[i], is a literal token with the content `::=`.
LiteralMarkerFollows(toks, i) ==
    \/ /\ i + 1 <= Len(toks)
       /\ toks[i + 1] = Token("literal", DefinitionText)
    \/ /\ i + 2 <= Len(toks)
       /\ toks[i + 1].kind = "whitespace"
       /\ toks[i + 2] = Token("literal", DefinitionText)

\* C15: the characters of a literal span are not interpreted: the content of
\* a literal token is the characters between its delimiters as they stand, no
\* other token lies within the span, and the node for it is the one
\* LiteralEmphasis; every DefinitionMarker and CrossReferenceMarker is made
\* from an identifier token, which lies outside every span, and a
\* DefinitionMarker only before a token of kind definition; a syntax
\* identifier followed, directly or after whitespace, by a literal span with
\* the content `::=` gives a CrossReferenceMarker.
C15_LiteralNotInterpreted ==
    \A p \in Parsers :
        LET c == content[LexerOf(p)]
            lx == lexed[LexerOf(p)]
            toks == Tokens(p)
        IN /\ \A i \in 1..Len(lx) :
                 lx[i].token.kind = "literal" =>
                    /\ lx[i].token.content =
                          SubSeq(c, lx[i].start + 3, lx[i].pos - lx[i].close)
                    /\ \A j \in 1..Len(lx) :
                          j /= i => \/ lx[j].pos <= lx[i].start
                                    \/ lx[j].start >= lx[i].pos
                    /\ i <= Len(out[p]) =>
                          out[p][i] = LiteralEmphasis(lx[i].token.content)
           /\ \A i \in 1..Len(out[p]) :
                 /\ out[p][i].type \in {"DefinitionMarker",
                                        "CrossReferenceMarker"} =>
                       /\ i <= Len(lx)
                       /\ lx[i].token.kind = "identifier"
                       /\ NodeText(out[p][i]) =
                             SubSeq(c, lx[i].start + 1, lx[i].pos)
                 /\ out[p][i].type = "DefinitionMarker" =>
                       \E d \in {i + 1, i + 2} :
                           d <= Len(lx) /\ lx[d].token.kind = "definition"
                 /\ (IsSyntaxToken(toks[i]) /\ LiteralMarkerFollows(toks, i)) =>
                       out[p][i] = CrossReferenceMarker(toks[i].content,
                                                        document_name[p])

C15_Witness ==
    \E p \in Parsers :
        /\ pc[p] = "done"
        /\ Len(out[p]) = 3
        /\ out[p][1].type = "CrossReferenceMarker"
        /\ out[p][2] = Text(<<" ">>)
        /\ out[p][3] = LiteralEmphasis(DefinitionText)

-----------------------------------------------------------------------------
(* Shapes of the tokens *)

IsAlphabeticText(text) ==
    text /= <<>> /\ \A k \in 1..Len(text) : isalpha(text[k])

\* C16: every token the Lexer yields has a content of the shape of its kind:
\* an identifier a non-empty run of alphabetic characters, a whitespace token
\* a non-empty run of whitespace characters, an other token exactly one
\* character neither alphabetic nor whitespace, each the characters of the
\* input from the token's start to the cursor; identifier and whitespace
\* tokens are maximal, so no two identifier tokens and no two whitespace
\* tokens are adjacent; and a syntax identifier followed by whitespace of any
\* length and then `::=` gives a DefinitionMarker.
C16_TokenShapes ==
    \A p \in Parsers :
        LET c == content[LexerOf(p)]
            lx == lexed[LexerOf(p)]
        IN \A i \in 1..Len(lx) :
              LET e == lx[i]
                  t == e.token
              IN /\ t.kind \in {"literal", "definition", "identifier",
                                "whitespace", "other"}
                 /\ t.content \in Seq(Alphabet)
                 /\ t.kind = "identifier" =>
                       /\ IsAlphabeticText(t.content)
                       /\ t.content = SubSeq(c, e.start + 1, e.pos)
                       /\ e.pos < Len(c) => ~isalpha(c[e.pos + 1])
                 /\ t.kind = "whitespace" =>
                       /\ IsWhitespaceText(t.content)
                       /\ t.content = SubSeq(c, e.start + 1, e.pos)
                       /\ e.pos < Len(c) => ~isspace(c[e.pos + 1])
                 /\ t.kind = "other" =>
                       /\ Len(t.content) = 1
                       /\ ~isalpha(t.content[1])
                       /\ ~isspace(t.content[1])
                       /\ t.content = SubSeq(c, e.start + 1, e.pos)
                 /\ i < Len(lx) =>
                       /\ lx[i + 1].start = e.pos
                       /\ ~(t.kind = "identifier"
                            /\ lx[i + 1].token.kind = "identifier")
                       /\ ~(t.kind = "whitespace"
                            /\ lx[i + 1].token.kind = "whitespace")
                 /\ (/\ IsSyntaxToken(t)
                     /\ i + 2 <= Len(lx)
                     /\ e.pos < Len(c) /\ isspace(c[e.pos + 1])
                     /\ MarkerAt(c, lx[i + 1].pos)
                     /\ i <= Len(out[p])) =>
                       out[p][i] = DefinitionMarker(t.content)

C16_Witness ==
    \E p \in Parsers :
        /\ pc[p] = "done"
        /\ out[p] = <<DefinitionMarker(<<"A">>), Text(<<" ", " ">>),
                      Text(DefinitionText)>>

-----------------------------------------------------------------------------
(* Bounded lookahead *)

\* C17: during a parse peek is called with n = 0 or n = 1 only, the peek
\* buffer never holds more than two tokens, and the lexer has never yielded
\* more than two tokens beyond those next() has returned.
C17_BoundedLookahead ==
    \A p \in Parsers :
        /\ last[p].op = "peek" => last[p].nth \in {0, 1}
        /\ offset[p] \in {0, 1}
        /\ Len(peek_buffer[BufferOf(p)]) <= 2
        /\ Len(lexed[LexerOf(p)]) <= Len(returned[p]) + 2
        /\ Len(lexed[LexerOf(p)]) <= Len(out[p]) + 3

C17_Witness ==
    \E p \in Parsers :
        /\ pc[p] = "reference"
        /\ last[p].op = "peek"
        /\ last[p].nth = 1
        /\ Len(peek_buffer[BufferOf(p)]) = 2
        /\ Len(lexed[LexerOf(p)]) = Len(returned[p]) + 2
        /\ Len(lexed[LexerOf(p)]) = Len(out[p]) + 3

-----------------------------------------------------------------------------
(* No `$$` inside a literal *)

\* C18: the content of a literal token never holds two adjacent `$`; a
\* closed span ends with the `$$` that stands right before the cursor, its
\* content being the characters between the two delimiters; the token after
\* it starts at that cursor, so a `$` left after the closing delimiter that
\* does not open a new span is yielded as the token other("$").
C18_NoDelimiterInLiteral ==
    \A l \in DOMAIN lexed :
        LET c == content[l]
            lx == lexed[l]
        IN \A i \in 1..Len(lx) :
              LET e == lx[i]
                  t == e.token
              IN t.kind = "literal" =>
                    /\ \A k \in 1..(Len(t.content) - 1) :
                          ~(t.content[k] = "$" /\ t.content[k + 1] = "$")
                    /\ e.close = 2 =>
                          /\ DelimiterAt(c, e.pos - 2)
                          /\ e.pos - 2 >= e.start + 2
                          /\ t.content = SubSeq(c, e.start + 3, e.pos - 2)
                    /\ i < Len(lx) =>
                          /\ e.close = 2
                          /\ lx[i + 1].start = e.pos
                          /\ (c[e.pos + 1] = "$" /\ ~DelimiterAt(c, e.pos)) =>
                                /\ lx[i + 1].token = Token("other", <<"$">>)
                                /\ lx[i + 1].pos = e.pos + 1

C18_Witness ==
    \E p \in Parsers :
        /\ pc[p] = "done"
        /\ content[LexerOf(p)] = <<"$", "$", "b", "$", "$", "$">>
        /\ out[p] = <<LiteralEmphasis(<<"b">>), Text(<<"$">>)>>

-----------------------------------------------------------------------------
(* One name per definition token *)

\* The places in the output of p that hold a DefinitionMarker.
DefinitionMarkers(p) ==
    {i \in 1..Len(out[p]) : out[p][i].type = "DefinitionMarker"}

\* The places in the tokens lx the lexer has yielded that hold a definition.
DefinitionTokens(lx) ==
    {k \in 1..Len(lx) : lx[k].token.kind = "definition"}

\* The place of the definition token that makes the identifier at i a
\* definition: the first definition token after it.
DefinitionSite(lx, i) ==
    IF i + 1 <= Len(lx) /\ lx[i + 1].token.kind = "definition"
    THEN i + 1 ELSE i + 2

\* C19: every DefinitionMarker is made from an identifier that passes
\* is_syntax_identifier and has its own definition token, the first one after
\* the identifier, directly behind it or behind one whitespace token; two
\* DefinitionMarkers never have the same definition token, so there are never
\* more DefinitionMarkers than definition tokens; and an identifier that fails
\* is_syntax_identifier gives a Text node, also when `::=` follows it.
C19_OneNamePerDefinition ==
    \A p \in Parsers :
        LET lx == lexed[LexerOf(p)]
            marks == DefinitionMarkers(p)
        IN /\ \A i \in marks :
                 LET d == DefinitionSite(lx, i) IN
                 /\ i <= Len(lx)
                 /\ IsSyntaxToken(lx[i].token)
                 /\ out[p][i].name = lx[i].token.content
                 /\ d <= Len(lx)
                 /\ lx[d].token = Token("definition", DefinitionText)
                 /\ d = i + 2 => lx[i + 1].token.kind = "whitespace"
           /\ \A i, j \in marks :
                 i /= j => DefinitionSite(lx, i) /= DefinitionSite(lx, j)
           /\ Cardinality(marks) <= Cardinality(DefinitionTokens(lx))
           /\ \A i \in 1..Len(out[p]) :
                 (/\ lx[i].token.kind = "identifier"
                  /\ ~is_syntax_identifier(lx[i].token.content)) =>
                    /\ out[p][i] = Text(lx[i].token.content)
                    /\ i \notin marks

C19_Witness ==
    \E p \in Parsers :
        /\ pc[p] = "done"
        /\ out[p] = <<Text(<<"b">>), Text(DefinitionText),
                      DefinitionMarker(<<"A">>), Text(DefinitionText)>>
        /\ Cardinality(DefinitionTokens(lexed[LexerOf(p)])) = 2

====
